---- MODULE Spec2Model ----
(***************************************************************************)
(* A model of scraper.py: the field extractor get_book_data, the full-run  *)
(* orchestrator scrape_books (reachability check, catalogue walk, dispatch *)
(* over a thread pool, persistence) and its caller run_scraper.            *)
(*                                                                         *)
(* Python values are tagged records so that values of different Python     *)
(* types can be compared: [str |-> s], [int |-> n] and None.               *)
(***************************************************************************)
EXTENDS Integers, Sequences, FiniteSets, TLC

(***************************************************************************)
(* Bounds of the model.                                                    *)
(***************************************************************************)
\* The site's catalogue lists at most this many anchors over all its pages.
MaxUrls == 2
\* A detail page's specification table has at most this many rows.
MaxRows == 2
\* The size of the thread pool (scraper.py line 31 sets 10); scaled down so
\* that tasks queue behind busy workers with MaxUrls submitted tasks.
MAX_WORKERS == 1
\* The scheduler's clock counts passes of the loop's sleep (60 seconds); a
\* day is scaled down to this many of them.
DayTicks == 3
\* The scheduler loop is followed for this many days after the first.
MaxDays == 1

(***************************************************************************)
(* Python values.                                                          *)
(***************************************************************************)
None == [none |-> TRUE]
PyStr(s) == [str |-> s]
PyInt(n) == [int |-> n]

BASE_URL == "https://books.toscrape.com"

RATING_MAP ==
  [c \in {"One", "Two", "Three", "Four", "Five"} |->
     CASE c = "One" -> 1 [] c = "Two" -> 2 [] c = "Three" -> 3
       [] c = "Four" -> 4 [] c = "Five" -> 5]

\* dict.get(key, default) on RATING_MAP
RatingGet(c) == IF c \in DOMAIN RATING_MAP THEN RATING_MAP[c] ELSE 0

(***************************************************************************)
(* Text and str.strip(): leading and trailing whitespace is removed.       *)
(***************************************************************************)
RawTexts == {"\n  A Light in the Attic  \n"}

strip(t) == IF t = "\n  A Light in the Attic  \n" THEN "A Light in the Attic" ELSE t

\* element.text.strip() if element else None; an absent element is None
TextOrNone(el) == IF el = None THEN None ELSE PyStr(strip(el.str))

Elements == {None} \cup {PyStr(t) : t \in RawTexts}

(***************************************************************************)
(* A Python dict with string keys is the set of its <<key, value>> items,  *)
(* one per key.                                                            *)
(***************************************************************************)
EmptyDict == {}

Keys(d) == {item[1] : item \in d}

Get(d, k) == (CHOOSE item \in d : item[1] = k)[2]

\* d[k] = v
DictSet(d, k, v) == {item \in d : item[1] # k} \cup {<<k, v>>}

\* {**d, **e}: the entries of e replace those of d with the same key
DictMerge(d, e) == {item \in d : item[1] \notin Keys(e)} \cup e

\* bool(d)
Truthy(d) == d # EmptyDict

(***************************************************************************)
(* The parsed document of a detail page, as the queries of get_book_data   *)
(* see it.                                                                 *)
(*   h1, price, stock : the element's text, or None when find() finds none *)
(*   star    : the class list of <p class="star-rating ..."> or None       *)
(*   desc    : "noheader" (no div#product_description), "nopara" (header   *)
(*             without a following <p>), or the paragraph's text           *)
(*   table   : None, or the rows [th, td] of the table; a cell is its text *)
(*             or None when the row has no such cell                       *)
(***************************************************************************)
ClassLists ==
  { <<"star-rating">>, <<"star-rating", "Three">>, <<"star-rating", "Five">>,
    <<"star-rating", "Zero">>, <<"Three", "star-rating">> }

Stars == {None} \cup {[classes |-> c] : c \in ClassLists}

Descs == {"noheader", "nopara"} \cup RawTexts

\* Row labels include the names of fixed fields of the record.
RowLabels == {"UPC", "url", "rating"}
Rows ==
  {[th |-> PyStr(l), td |-> PyStr("a897fe39b1053632")] : l \in RowLabels}
    \cup {[th |-> None, td |-> PyStr("a897fe39b1053632")],
          [th |-> PyStr("UPC"), td |-> None]}

SeqUpTo(S, n) == UNION { [1..k -> S] : k \in 0..n }

Tables == {None} \cup {[rows |-> r] : r \in SeqUpTo(Rows, MaxRows)}

Docs == [h1 : Elements, price : Elements, star : Stars, stock : Elements,
         desc : Descs, table : Tables]

(***************************************************************************)
(* What session.get / raise_for_status / BeautifulSoup do for one request: *)
(*   "ok"          status 200, body parsed                                 *)
(*   "http_error"  a non-success status (raise_for_status -> HTTPError)    *)
(*   "connection"  requests.ConnectionError                                *)
(*   "timeout"     requests.Timeout                                        *)
(*   "fault"       an exception that is no requests.RequestException       *)
(***************************************************************************)
RequestFailures == {"http_error", "connection", "timeout"}
FetchOutcomes == {"ok", "fault"} \cup RequestFailures

\* The info dict built by the loop over the table's rows (lines 81-91): a
\* row needs both cells, and a later row with the same label overwrites an
\* earlier one.
RECURSIVE InfoOf(_)
InfoOf(rows) ==
  IF rows = <<>> THEN EmptyDict
  ELSE LET prev == InfoOf(SubSeq(rows, 1, Len(rows) - 1))
           row == rows[Len(rows)]
       IN IF row.th # None /\ row.td # None
          THEN DictSet(prev, strip(row.th.str), PyStr(strip(row.td.str)))
          ELSE prev

\* lines 61-66
Rating(star) ==
  IF star # None /\ Len(star.classes) > 1 THEN RatingGet(star.classes[2]) ELSE 0

\* lines 73-78
Description(desc) ==
  IF desc = "noheader" \/ desc = "nopara" THEN None ELSE PyStr(strip(desc))

\* the literal entries of the returned dict, lines 94-99
FixedFields(book_url, doc) ==
  { <<"title", TextOrNone(doc.h1)>>,
    <<"price", TextOrNone(doc.price)>>,
    <<"rating", PyInt(Rating(doc.star))>>,
    <<"stock", TextOrNone(doc.stock)>>,
    <<"description", Description(doc.desc)>>,
    <<"url", PyStr(book_url)>> }

Return(v) == [kind |-> "return", value |-> v]
Raise(e) == [kind |-> "raise", exc |-> e]

\* get_book_data without the raise_for_status() of line 49: the body of an
\* error response is parsed like a page.
get_book_data_unchecked_status(book_url, outcome, doc) ==
  IF outcome \in {"connection", "timeout"} THEN Return(EmptyDict)
  ELSE IF outcome = "fault" THEN Raise("Exception")
  ELSE Return(DictMerge(FixedFields(book_url, doc),
                        IF doc.table = None THEN EmptyDict
                        ELSE InfoOf(doc.table.rows)))

\* get_book_data(session, book_url) when the request ends with `outcome`
\* and the page is `doc`.
get_book_data(book_url, outcome, doc) ==
  IF outcome \in RequestFailures THEN Return(EmptyDict)
  ELSE IF outcome = "fault" THEN Raise("Exception")
  ELSE Return(DictMerge(FixedFields(book_url, doc),
                        IF doc.table = None THEN EmptyDict
                        ELSE InfoOf(doc.table.rows)))

(***************************************************************************)
(* The site.                                                               *)
(***************************************************************************)
\* CATALOGUE_URL_TEMPLATE.format(page)
CATALOGUE_URL_TEMPLATE(page) == <<"https://books.toscrape.com/catalogue/page-{}.html", page>>

\* The href attribute of an anchor of a catalogue page: a relative address,
\* None when the anchor has no href, or a malformed address.
GoodHrefs == {"a/index.html", "b/index.html"}
BadHref == "http://["
Hrefs == {None} \cup {PyStr(h) : h \in GoodHrefs \cup {BadHref}}

\* urljoin(page_url, href) for a page_url under /catalogue/: the relative
\* address resolved against the page's directory; ValueError ("Invalid IPv6
\* URL") on the malformed address.
urljoin(page_url, href) ==
  CASE href = "a/index.html" ->
         Return("https://books.toscrape.com/catalogue/a/index.html")
    [] href = "b/index.html" ->
         Return("https://books.toscrape.com/catalogue/b/index.html")
    [] OTHER -> Raise("ValueError")

BookUrls == {urljoin(CATALOGUE_URL_TEMPLATE(1), h).value : h \in GoodHrefs}

\* The document the site serves at a detail address.
DetailPage(url) ==
  IF url = "https://books.toscrape.com/catalogue/a/index.html"
  THEN [h1 |-> PyStr("\n  A Light in the Attic  \n"),
        price |-> PyStr("\n  A Light in the Attic  \n"),
        star |-> [classes |-> <<"star-rating", "Three">>],
        stock |-> PyStr("\n  A Light in the Attic  \n"),
        desc |-> "\n  A Light in the Attic  \n",
        table |-> [rows |-> <<[th |-> PyStr("UPC"),
                               td |-> PyStr("a897fe39b1053632")]>>]]
  ELSE [h1 |-> None, price |-> None, star |-> None, stock |-> None,
        desc |-> "noheader", table |-> None]

(***************************************************************************)
(* State.                                                                  *)
(*   caller, is_save, max_pages : who calls scrape_books, and its arguments*)
(*       (max_pages is None or [int |-> n])                                *)
(*   pc            : the coordinator's position in scrape_books            *)
(*   session       : "none", "open" or "closed" (the with block, line 126) *)
(*   root_check    : the outcome of the reachability request, "pending"    *)
(*                   before it                                             *)
(*   page, all_book_urls : the locals of the catalogue walk                *)
(*   fetch_log     : the catalogue requests made so far, in order          *)
(*   walk_end      : why the walk's loop was left ("running" before)       *)
(*   executor      : "none", "open" or "shutdown" (the with block, 189)    *)
(*   tasks         : the futures in submission order, [url, st, result,    *)
(*                   attempts] with st "queued", "running", "finished" or   *)
(*                   "collected" and attempts the calls of get_book_data    *)
(*                   started for it                                        *)
(*   parsed_books, failed_count : the accumulators of the dispatch         *)
(*   save_calls, artifact : the calls of save_books_data and the file      *)
(*   save_outcome, save_ret : how the call of save_books_data went         *)
(*                   ("none", "written" or "oserror") and what it handed   *)
(*                   back to scrape_books                                  *)
(*   ret           : what scrape_books handed to its caller                *)
(*   rs_ret        : how run_scraper ended                                 *)
(*   ex_*          : one isolated call of get_book_data                    *)
(*   target_time, test_delay : the arguments of main_loop, in ticks        *)
(*   lp_pc         : the position of main_loop                             *)
(*   now           : the wall clock, in ticks since midnight of day 0      *)
(*   jobs          : the registered jobs' next_run, by job                 *)
(*   runnable      : the due jobs run_pending still has to run             *)
(*   active        : the invocations of run_scraper in progress            *)
(*   fired         : how often each job has run                            *)
(*   lp_last       : how the latest run ended                              *)
(*   lp_exit       : why the loop was left ("none" while it runs)          *)
(***************************************************************************)
VARIABLES caller, is_save, max_pages, pc, session, root_check, page,
          all_book_urls, fetch_log, walk_end, executor, tasks, parsed_books,
          failed_count, save_calls, artifact, save_outcome, save_ret,
          ret, rs_ret,
          ex_pc, ex_url, ex_outcome, ex_doc, ex_ret,
          target_time, test_delay, lp_pc, now, jobs, runnable, active, fired,
          lp_last, lp_exit

args == <<caller, is_save, max_pages>>
walk_vars == <<page, all_book_urls, fetch_log, walk_end>>
pool_vars == <<executor, tasks, parsed_books, failed_count>>
save_vars == <<save_calls, artifact, save_outcome, save_ret>>
run_vars == <<caller, is_save, max_pages, pc, session, root_check, page,
              all_book_urls, fetch_log, walk_end, executor, tasks,
              parsed_books, failed_count, save_calls, artifact, save_outcome,
              save_ret, ret, rs_ret>>
ex_vars == <<ex_pc, ex_url, ex_outcome, ex_doc, ex_ret>>
loop_vars == <<target_time, test_delay, lp_pc, now, jobs, runnable, active,
               fired, lp_last, lp_exit>>
vars == <<run_vars, ex_vars, loop_vars>>

NoResult == [kind |-> "pending"]

\* The max_pages arguments callers supply: None or an integer.
Caps == {None} \cup {PyInt(n) : n \in -1..MaxUrls}

\* bool(max_pages) of line 145: None and 0 are falsy
CapTruthy(mp) == mp # None /\ mp.int # 0

ExtractIdle ==
  /\ ex_pc = "idle"
  /\ ex_url = BASE_URL
  /\ ex_outcome = "ok"
  /\ ex_doc = DetailPage(BASE_URL)
  /\ ex_ret = NoResult

JobNames == {"target", "test"}

LoopIdle ==
  /\ target_time = 0 /\ test_delay = 0
  /\ lp_pc = "idle" /\ now = 0 /\ jobs = <<>> /\ runnable = <<>>
  /\ active = 0 /\ fired = [n \in JobNames |-> 0]
  /\ lp_last = "none" /\ lp_exit = "none"

RunIdle ==
  /\ caller = "none" /\ is_save = FALSE /\ max_pages = None
  /\ pc = "idle" /\ session = "none" /\ root_check = "pending"
  /\ page = 1 /\ all_book_urls = <<>> /\ fetch_log = <<>>
  /\ walk_end = "running" /\ executor = "none" /\ tasks = <<>>
  /\ parsed_books = <<>> /\ failed_count = 0
  /\ save_calls = 0 /\ artifact = [state |-> "old"]
  /\ save_outcome = "none" /\ save_ret = NoResult
  /\ ret = NoResult /\ rs_ret = "pending"

\* The state at the call of scrape_books: run_scraper calls
\* scrape_books(is_save=True); any other caller chooses the arguments.
Init ==
  /\ caller \in {"run_scraper", "direct"}
  /\ is_save \in BOOLEAN
  /\ max_pages \in Caps
  /\ caller = "run_scraper" => is_save /\ max_pages = None
  /\ pc = "check" /\ session = "open" /\ root_check = "pending"
  /\ page = 1 /\ all_book_urls = <<>> /\ fetch_log = <<>>
  /\ walk_end = "running" /\ executor = "none" /\ tasks = <<>>
  /\ parsed_books = <<>> /\ failed_count = 0
  /\ save_calls = 0 /\ artifact = [state |-> "old"]
  /\ save_outcome = "none" /\ save_ret = NoResult
  /\ ret = NoResult /\ rs_ret = "pending"
  /\ ExtractIdle
  /\ LoopIdle

(***************************************************************************)
(* scrape_books: the reachability check, lines 131-138.                    *)
(***************************************************************************)
RootCheckOk ==
  /\ pc = "check"
  /\ root_check' = "ok"
  /\ pc' = "walk"
  /\ UNCHANGED <<ex_vars, loop_vars, args, session, walk_vars, pool_vars, save_vars, ret, rs_ret>>

\* The handler of line 136 without its return: the failure is printed and
\* the walk begins.
RootCheckFailedContinues ==
  /\ pc = "check"
  /\ \E o \in RequestFailures : root_check' = o
  /\ pc' = "walk"
  /\ UNCHANGED <<ex_vars, loop_vars, args, session, walk_vars, pool_vars, save_vars, ret,
                 rs_ret>>

\* except requests.RequestException: return [] (leaving the with block
\* closes the session)
RootCheckFailed ==
  /\ pc = "check"
  /\ \E o \in RequestFailures : root_check' = o
  /\ session' = "closed"
  /\ ret' = Return(<<>>)
  /\ pc' = "returned"
  /\ UNCHANGED <<ex_vars, loop_vars, args, walk_vars, pool_vars, save_vars, rs_ret>>

(***************************************************************************)
(* scrape_books: the catalogue walk, lines 141-176.  One action is one     *)
(* pass of the while loop.                                                 *)
(***************************************************************************)
Logged(o, links) == [page |-> page, outcome |-> o, links |-> links]

\* line 145
CapReached == CapTruthy(max_pages) /\ page > max_pages.int

WalkCapReached ==
  /\ pc = "walk"
  /\ CapReached
  /\ walk_end' = "cap"
  /\ pc' = "walked"
  /\ UNCHANGED <<ex_vars, loop_vars, args, session, root_check, page, all_book_urls, fetch_log,
                 pool_vars, save_vars, ret, rs_ret>>

\* lines 152-154: status_code != 200
WalkPageUnavailable ==
  /\ pc = "walk"
  /\ ~CapReached
  /\ fetch_log' = Append(fetch_log, Logged("http_error", <<>>))
  /\ walk_end' = "unavailable"
  /\ pc' = "walked"
  /\ UNCHANGED <<ex_vars, loop_vars, args, session, root_check, page, all_book_urls,
                 pool_vars, save_vars, ret, rs_ret>>

\* The handler of line 174 dropping what was collected.
WalkRequestExceptionDiscards ==
  /\ pc = "walk"
  /\ ~CapReached
  /\ \E o \in {"connection", "timeout"} :
       fetch_log' = Append(fetch_log, Logged(o, <<>>))
  /\ all_book_urls' = <<>>
  /\ walk_end' = "exception"
  /\ pc' = "walked"
  /\ UNCHANGED <<ex_vars, loop_vars, args, session, root_check, page,
                 pool_vars, save_vars, ret, rs_ret>>

\* lines 174-176
WalkRequestException ==
  /\ pc = "walk"
  /\ ~CapReached
  /\ \E o \in {"connection", "timeout"} :
       fetch_log' = Append(fetch_log, Logged(o, <<>>))
  /\ walk_end' = "exception"
  /\ pc' = "walked"
  /\ UNCHANGED <<ex_vars, loop_vars, args, session, root_check, page, all_book_urls,
                 pool_vars, save_vars, ret, rs_ret>>

\* The empty page without the break of line 162: the walk goes on.
WalkPageEmptyContinues ==
  /\ pc = "walk"
  /\ ~CapReached
  /\ fetch_log' = Append(fetch_log, Logged("ok", <<>>))
  /\ page' = page + 1
  /\ UNCHANGED <<ex_vars, loop_vars, args, pc, session, root_check, all_book_urls,
                 walk_end, pool_vars, save_vars, ret, rs_ret>>

\* lines 160-162
WalkPageEmpty ==
  /\ pc = "walk"
  /\ ~CapReached
  /\ fetch_log' = Append(fetch_log, Logged("ok", <<>>))
  /\ walk_end' = "empty"
  /\ pc' = "walked"
  /\ UNCHANGED <<ex_vars, loop_vars, args, session, root_check, page, all_book_urls,
                 pool_vars, save_vars, ret, rs_ret>>

\* The loop over book_links, lines 164-169: the addresses appended, or the
\* exception of the first href urljoin rejects.
RECURSIVE Resolve(_, _)
Resolve(page_url, links) ==
  IF links = <<>> THEN Return(<<>>)
  ELSE LET href_value == Head(links)
       IN IF href_value = None THEN Resolve(page_url, Tail(links))
          ELSE LET book_url == urljoin(page_url, href_value.str)
                   rest == Resolve(page_url, Tail(links))
               IN IF book_url.kind = "raise" THEN book_url
                  ELSE IF rest.kind = "raise" THEN rest
                  ELSE Return(<<book_url.value>> \o rest.value)

\* The anchors of the pages fetched so far.
RECURSIVE Anchors(_)
Anchors(log) ==
  IF log = <<>> THEN 0 ELSE Len(Head(log).links) + Anchors(Tail(log))

\* The non-empty anchor lists the site can serve on the next page: it lists
\* at most MaxUrls anchors in all.
SiteLinks ==
  {l \in SeqUpTo(Hrefs, MaxUrls - Anchors(fetch_log)) : l # <<>>}

\* The loop over book_links left after its first append.
WalkPageLinksFirstOnly ==
  /\ pc = "walk"
  /\ ~CapReached
  /\ \E links \in SiteLinks :
       LET r == Resolve(CATALOGUE_URL_TEMPLATE(page), links)
       IN /\ r.kind = "return"
          /\ fetch_log' = Append(fetch_log, Logged("ok", links))
          /\ all_book_urls' = all_book_urls \o
                 (IF r.value = <<>> THEN <<>> ELSE <<r.value[1]>>)
  /\ page' = page + 1
  /\ UNCHANGED <<ex_vars, loop_vars, args, pc, session, root_check, walk_end,
                 pool_vars, save_vars, ret, rs_ret>>

\* lines 164-172
WalkPageLinks ==
  /\ pc = "walk"
  /\ ~CapReached
  /\ \E links \in SiteLinks :
       LET r == Resolve(CATALOGUE_URL_TEMPLATE(page), links)
       IN /\ r.kind = "return"
          /\ fetch_log' = Append(fetch_log, Logged("ok", links))
          /\ all_book_urls' = all_book_urls \o r.value
  /\ page' = page + 1
  /\ UNCHANGED <<ex_vars, loop_vars, args, pc, session, root_check, walk_end,
                 pool_vars, save_vars, ret, rs_ret>>

\* urljoin raises ValueError at line 168: the handler of line 174 does not
\* match, so the exception leaves scrape_books through the with block.
WalkHrefFault ==
  /\ pc = "walk"
  /\ ~CapReached
  /\ \E links \in SiteLinks :
       LET r == Resolve(CATALOGUE_URL_TEMPLATE(page), links)
       IN /\ r.kind = "raise"
          /\ fetch_log' = Append(fetch_log, Logged("ok", links))
          /\ ret' = r
  /\ walk_end' = "fault"
  /\ session' = "closed"
  /\ pc' = "raised"
  /\ UNCHANGED <<ex_vars, loop_vars, args, root_check, page, all_book_urls,
                 pool_vars, save_vars, rs_ret>>

(***************************************************************************)
(* scrape_books: the dispatch, lines 180-209.                              *)
(***************************************************************************)
\* lines 180-182
NoBooksFound ==
  /\ pc = "walked"
  /\ all_book_urls = <<>>
  /\ session' = "closed"
  /\ ret' = Return(<<>>)
  /\ pc' = "returned"
  /\ UNCHANGED <<ex_vars, loop_vars, args, root_check, walk_vars, pool_vars, save_vars, rs_ret>>

\* lines 184-189
OpenExecutor ==
  /\ pc = "walked"
  /\ all_book_urls # <<>>
  /\ parsed_books' = <<>>
  /\ failed_count' = 0
  /\ executor' = "open"
  /\ pc' = "submit"
  /\ UNCHANGED <<ex_vars, loop_vars, args, session, root_check, walk_vars, tasks, save_vars,
                 ret, rs_ret>>

\* One executor.submit of the comprehension of lines 190-193: a new future
\* for the next entry of all_book_urls.
Submit ==
  /\ pc = "submit"
  /\ LET url == all_book_urls[Len(tasks) + 1]
     IN tasks' = Append(tasks, [url |-> url, st |-> "queued",
                                result |-> NoResult, attempts |-> 0])
  /\ pc' = IF Len(tasks) + 1 = Len(all_book_urls) THEN "collect" ELSE "submit"
  /\ UNCHANGED <<ex_vars, loop_vars, args, session, root_check, walk_vars, executor,
                 parsed_books, failed_count, save_vars, ret, rs_ret>>

Running == {i \in DOMAIN tasks : tasks[i].st = "running"}
Queued == {i \in DOMAIN tasks : tasks[i].st = "queued"}
Finished == {i \in DOMAIN tasks : tasks[i].st = "finished"}
Collected == {i \in DOMAIN tasks : tasks[i].st = "collected"}

\* A worker thread of the pool takes the oldest queued work item; the pool
\* has at most MAX_WORKERS threads.
WorkerStart ==
  /\ executor = "open"
  /\ Queued # {}
  /\ Cardinality(Running) < MAX_WORKERS
  /\ LET i == CHOOSE j \in Queued : \A k \in Queued : j <= k
     IN tasks' = [tasks EXCEPT ![i].st = "running",
                               ![i].attempts = @ + 1]
  /\ UNCHANGED <<ex_vars, loop_vars, args, pc, session, root_check, walk_vars, executor,
                 parsed_books, failed_count, save_vars, ret, rs_ret>>

\* The worker's call get_book_data(session, url) ends and sets the future.
WorkerFinish ==
  /\ \E i \in Running, o \in FetchOutcomes :
       tasks' = [tasks EXCEPT
                   ![i].st = "finished",
                   ![i].result = get_book_data(tasks[i].url, o,
                                               DetailPage(tasks[i].url))]
  /\ UNCHANGED <<ex_vars, loop_vars, args, pc, session, root_check, walk_vars, executor,
                 parsed_books, failed_count, save_vars, ret, rs_ret>>

\* The for loop of line 195 ends when as_completed has yielded every future.
AfterCollect(ts) ==
  IF \A i \in DOMAIN ts : ts[i].st = "collected" THEN "join" ELSE "collect"

\* One pass of the loop over as_completed(futures), lines 195-209, for a
\* future whose result is a non-empty record.  as_completed yields the
\* futures already finished at its call in no particular order and the
\* others as they finish: any finished future may come next.
CollectRecord ==
  /\ pc = "collect"
  /\ \E i \in Finished :
       /\ tasks[i].result.kind = "return"
       /\ Truthy(tasks[i].result.value)
       /\ parsed_books' = Append(parsed_books, tasks[i].result.value)
       /\ tasks' = [tasks EXCEPT ![i].st = "collected"]
  /\ pc' = AfterCollect(tasks')
  /\ UNCHANGED <<ex_vars, loop_vars, args, session, root_check, walk_vars, executor,
                 failed_count, save_vars, ret, rs_ret>>

\* An empty record counted and its URL submitted again.
CollectEmptyRequeues ==
  /\ pc = "collect"
  /\ \E i \in Finished :
       /\ tasks[i].result.kind = "return"
       /\ ~Truthy(tasks[i].result.value)
       /\ tasks' = [tasks EXCEPT ![i].st = "queued", ![i].result = NoResult]
  /\ failed_count' = failed_count + 1
  /\ UNCHANGED <<ex_vars, loop_vars, args, pc, session, root_check, walk_vars,
                 executor, parsed_books, save_vars, ret, rs_ret>>

\* The empty record without the count of line 202.
CollectEmptyUncounted ==
  /\ pc = "collect"
  /\ \E i \in Finished :
       /\ tasks[i].result.kind = "return"
       /\ ~Truthy(tasks[i].result.value)
       /\ tasks' = [tasks EXCEPT ![i].st = "collected"]
  /\ pc' = AfterCollect(tasks')
  /\ UNCHANGED <<ex_vars, loop_vars, args, session, root_check, walk_vars, executor,
                 parsed_books, failed_count, save_vars, ret, rs_ret>>

\* lines 201-203
CollectEmpty ==
  /\ pc = "collect"
  /\ \E i \in Finished :
       /\ tasks[i].result.kind = "return"
       /\ ~Truthy(tasks[i].result.value)
       /\ tasks' = [tasks EXCEPT ![i].st = "collected"]
  /\ failed_count' = failed_count + 1
  /\ pc' = AfterCollect(tasks')
  /\ UNCHANGED <<ex_vars, loop_vars, args, session, root_check, walk_vars, executor,
                 parsed_books, save_vars, ret, rs_ret>>

\* The handler of line 204 narrowed to requests.RequestException: the
\* task's exception leaves scrape_books through both with blocks.
CollectExceptionPropagates ==
  /\ pc = "collect"
  /\ \E i \in Finished :
       /\ tasks[i].result.kind = "raise"
       /\ Queued = {} /\ Running = {}
       /\ tasks' = [tasks EXCEPT ![i].st = "collected"]
       /\ ret' = tasks[i].result
  /\ executor' = "shutdown"
  /\ session' = "closed"
  /\ pc' = "raised"
  /\ UNCHANGED <<ex_vars, loop_vars, args, root_check, walk_vars,
                 parsed_books, failed_count, save_vars, rs_ret>>

\* lines 204-206: future.result() re-raises the task's exception
CollectException ==
  /\ pc = "collect"
  /\ \E i \in Finished :
       /\ tasks[i].result.kind = "raise"
       /\ tasks' = [tasks EXCEPT ![i].st = "collected"]
  /\ failed_count' = failed_count + 1
  /\ pc' = AfterCollect(tasks')
  /\ UNCHANGED <<ex_vars, loop_vars, args, session, root_check, walk_vars, executor,
                 parsed_books, save_vars, ret, rs_ret>>

\* Leaving the with block of line 189: shutdown(wait=True) returns when no
\* work item is queued or running.
ExecutorShutdown ==
  /\ pc = "join"
  /\ Queued = {} /\ Running = {}
  /\ executor' = "shutdown"
  /\ pc' = "close"
  /\ UNCHANGED <<ex_vars, loop_vars, args, session, root_check, walk_vars, tasks, parsed_books,
                 failed_count, save_vars, ret, rs_ret>>

\* Leaving the with block of line 126.
SessionClose ==
  /\ pc = "close"
  /\ session' = "closed"
  /\ pc' = "summary"
  /\ UNCHANGED <<ex_vars, loop_vars, args, root_check, walk_vars, pool_vars, save_vars, ret,
                 rs_ret>>

(***************************************************************************)
(* scrape_books: persistence and return, lines 211-220; save_books_data.   *)
(***************************************************************************)
\* Line 217 indented into the for loop of line 195.
SavePointInLoop == pc \in {"collect", "summary"}

\* Where line 217 stands: after both with blocks.
SavePoint == pc = "summary"

\* A save decided by is_save alone.
SaveWantedAlways == is_save

\* line 217
SaveWanted == is_save /\ parsed_books # <<>>

\* save_books_data(parsed_books) writes the file, lines 233-240
SaveWritten ==
  /\ SavePoint
  /\ SaveWanted
  /\ save_calls' = save_calls + 1
  /\ artifact' = [state |-> "written", books |-> parsed_books]
  /\ save_outcome' = "written"
  /\ save_ret' = Return(None)
  /\ pc' = "return"
  /\ UNCHANGED <<ex_vars, loop_vars, args, session, root_check, walk_vars, pool_vars, ret, rs_ret>>

\* save_books_data without the handler of line 242: the OSError leaves
\* save_books_data and scrape_books.
SaveOSErrorPropagates ==
  /\ SavePoint
  /\ SaveWanted
  /\ save_calls' = save_calls + 1
  /\ \/ artifact' = artifact
     \/ artifact' = [state |-> "truncated"]
  /\ save_outcome' = "oserror"
  /\ save_ret' = Raise("OSError")
  /\ ret' = Raise("OSError")
  /\ pc' = "raised"
  /\ UNCHANGED <<ex_vars, loop_vars, args, session, root_check, walk_vars, pool_vars,
                 rs_ret>>

\* save_books_data(parsed_books) meets an OSError, lines 242-243: in
\* os.makedirs or open (the file is as before) or while writing (the file
\* was truncated by open).
SaveOSError ==
  /\ SavePoint
  /\ SaveWanted
  /\ save_calls' = save_calls + 1
  /\ \/ artifact' = artifact
     \/ artifact' = [state |-> "truncated"]
  /\ save_outcome' = "oserror"
  /\ save_ret' = Return(None)
  /\ pc' = "return"
  /\ UNCHANGED <<ex_vars, loop_vars, args, session, root_check, walk_vars, pool_vars, ret, rs_ret>>

SaveSkipped ==
  /\ SavePoint
  /\ ~SaveWanted
  /\ pc' = "return"
  /\ UNCHANGED <<ex_vars, loop_vars, args, session, root_check, walk_vars, pool_vars, save_vars,
                 ret, rs_ret>>

\* A return that hands back the records only when they were saved.
ReturnBooksIfSaved ==
  /\ pc = "return"
  /\ ret' = Return(IF save_outcome = "oserror" THEN <<>> ELSE parsed_books)
  /\ pc' = "returned"
  /\ UNCHANGED <<ex_vars, loop_vars, args, session, root_check, walk_vars, pool_vars, save_vars,
                 rs_ret>>

\* line 220
ReturnBooks ==
  /\ pc = "return"
  /\ ret' = Return(parsed_books)
  /\ pc' = "returned"
  /\ UNCHANGED <<ex_vars, loop_vars, args, session, root_check, walk_vars, pool_vars, save_vars,
                 rs_ret>>

(***************************************************************************)
(* run_scraper, lines 246-258.                                             *)
(***************************************************************************)
\* lines 252-256
RunScraperReport ==
  /\ caller = "run_scraper"
  /\ rs_ret = "pending"
  /\ pc = "returned"
  /\ rs_ret' = "returned"
  /\ UNCHANGED <<ex_vars, loop_vars, args, pc, session, root_check, walk_vars, pool_vars,
                 save_vars, ret>>

\* The handler of line 257 narrowed to requests.RequestException.
RunScraperUncaught ==
  /\ caller = "run_scraper"
  /\ rs_ret = "pending"
  /\ pc = "raised"
  /\ rs_ret' = "raised"
  /\ UNCHANGED <<ex_vars, loop_vars, args, pc, session, root_check, walk_vars, pool_vars,
                 save_vars, ret>>

\* lines 257-258: except Exception
RunScraperCaught ==
  /\ caller = "run_scraper"
  /\ rs_ret = "pending"
  /\ pc = "raised"
  /\ ret.exc # "KeyboardInterrupt"
  /\ rs_ret' = "returned"
  /\ UNCHANGED <<ex_vars, loop_vars, args, pc, session, root_check, walk_vars, pool_vars,
                 save_vars, ret>>

Next ==
  \/ RootCheckOk \/ RootCheckFailed
  \/ WalkCapReached \/ WalkPageUnavailable \/ WalkRequestException
  \/ WalkPageEmpty \/ WalkPageLinks \/ WalkHrefFault
  \/ NoBooksFound \/ OpenExecutor \/ Submit
  \/ WorkerStart \/ WorkerFinish
  \/ CollectRecord \/ CollectEmpty \/ CollectException
  \/ ExecutorShutdown \/ SessionClose
  \/ SaveWritten \/ SaveOSError \/ SaveSkipped \/ ReturnBooks
  \/ RunScraperReport \/ RunScraperCaught

Spec == Init /\ [][Next]_vars

(***************************************************************************)
(* scrape_books with an exception on the coordinator inside the with block *)
(* of the executor (lines 189-209): a KeyboardInterrupt, or the OSError of *)
(* the progress print of line 208, which stands outside the try.  The      *)
(* exception leaves the two with blocks from the inside out.               *)
(***************************************************************************)
CoordinatorFault ==
  /\ pc \in {"submit", "collect"}
  /\ \E e \in {"OSError", "KeyboardInterrupt"} : ret' = Raise(e)
  /\ pc' = "unwind_join"
  /\ UNCHANGED <<ex_vars, loop_vars, args, session, root_check, walk_vars,
                 pool_vars, save_vars, rs_ret>>

\* An executor left with shutdown(wait=False).
UnwindExecutorNoWait ==
  /\ pc = "unwind_join"
  /\ executor' = "shutdown"
  /\ pc' = "unwind_close"
  /\ UNCHANGED <<ex_vars, loop_vars, args, session, root_check, walk_vars,
                 tasks, parsed_books, failed_count, save_vars, ret, rs_ret>>

\* ThreadPoolExecutor.__exit__: shutdown(wait=True) lets the workers run
\* the items still queued and returns when none is queued or running.
UnwindExecutor ==
  /\ pc = "unwind_join"
  /\ Queued = {} /\ Running = {}
  /\ executor' = "shutdown"
  /\ pc' = "unwind_close"
  /\ UNCHANGED <<ex_vars, loop_vars, args, session, root_check, walk_vars,
                 tasks, parsed_books, failed_count, save_vars, ret, rs_ret>>

\* Session.__exit__, then the exception reaches the caller.
UnwindSession ==
  /\ pc = "unwind_close"
  /\ session' = "closed"
  /\ pc' = "raised"
  /\ UNCHANGED <<ex_vars, loop_vars, args, root_check, walk_vars, pool_vars,
                 save_vars, ret, rs_ret>>

InterruptNext ==
  \/ Next
  \/ CoordinatorFault \/ UnwindExecutor \/ UnwindSession

SpecInterrupt == Init /\ [][InterruptNext]_vars

(***************************************************************************)
(* One isolated call of get_book_data, over every document and outcome.    *)
(***************************************************************************)
ExtractInit ==
  /\ RunIdle
  /\ LoopIdle
  /\ ex_pc = "call"
  /\ ex_url \in BookUrls
  /\ ex_outcome \in FetchOutcomes
  /\ ex_doc \in Docs
  /\ ex_ret = NoResult

ExtractCall ==
  /\ ex_pc = "call"
  /\ ex_ret' = get_book_data(ex_url, ex_outcome, ex_doc)
  /\ ex_pc' = "done"
  /\ UNCHANGED <<ex_url, ex_outcome, ex_doc, run_vars, loop_vars>>

ExtractNext == ExtractCall

SpecExtract == ExtractInit /\ [][ExtractNext]_vars

(***************************************************************************)
(* main_loop, lines 261-282, with the jobs of the schedule library: a job  *)
(* every().day.at(t) is due when the clock has reached its next_run, and   *)
(* after a run its next_run is the next time of day t after the clock.     *)
(***************************************************************************)
\* The end of the days the loop is followed for.
Horizon == (MaxDays + 1) * DayTicks

TimeOfDay(t) == t % DayTicks

\* The next_run of a daily job at time of day t, scheduled at clock c: today
\* when t is still ahead, else tomorrow.
NextAt(c, t) ==
  IF t > TimeOfDay(c) THEN c - TimeOfDay(c) + t
  ELSE c - TimeOfDay(c) + DayTicks + t

\* The time of day of a job: target_time, or for the test job the time
\* strftime("%H:%M:%S") gives for start + test_delay (lines 269-270).
AtTime(n, start) ==
  IF n = "target" THEN target_time ELSE TimeOfDay(start + test_delay)

\* The state at the call of main_loop(target_time, test_delay).
LoopInit ==
  /\ RunIdle
  /\ ExtractIdle
  /\ target_time \in 0..(DayTicks - 1)
  /\ test_delay \in 0..1
  /\ now \in 0..(DayTicks - 1)
  /\ lp_pc = "setup"
  /\ jobs = <<>> /\ runnable = <<>>
  /\ active = 0 /\ fired = [n \in JobNames |-> 0]
  /\ lp_last = "none" /\ lp_exit = "none"

\* lines 265-272: the test job is registered when test_delay is truthy
RegisterJobs ==
  /\ lp_pc = "setup"
  /\ jobs' = [n \in (IF test_delay # 0 THEN JobNames ELSE {"target"}) |->
                NextAt(now, AtTime(n, now))]
  /\ lp_pc' = "pending"
  /\ UNCHANGED <<run_vars, ex_vars, target_time, test_delay, now, runnable,
                 active, fired, lp_last, lp_exit>>

Due == {n \in DOMAIN jobs : now >= jobs[n]}

\* The order of registration, lines 265 and 271.
Registered(n) == IF n = "target" THEN 1 ELSE 2

\* sorted(runnable_jobs): by next_run, jobs of equal next_run in the order
\* of registration.
SortedDue ==
  CHOOSE q \in [1..Cardinality(Due) -> Due] :
    \A i, j \in 1..Cardinality(Due) :
      i < j => \/ jobs[q[i]] < jobs[q[j]]
               \/ jobs[q[i]] = jobs[q[j]] /\ Registered(q[i]) < Registered(q[j])

\* line 277: schedule.run_pending() collects the due jobs
RunPending ==
  /\ lp_pc = "pending"
  /\ runnable' = SortedDue
  /\ lp_pc' = IF Due = {} THEN "sleep" ELSE "job"
  /\ UNCHANGED <<run_vars, ex_vars, target_time, test_delay, now, jobs,
                 active, fired, lp_last, lp_exit>>

\* A job that hands run_scraper to a thread of its own and goes on.
StartRunThreaded ==
  /\ lp_pc = "job"
  /\ active' = active + 1
  /\ runnable' = Tail(runnable)
  /\ lp_pc' = IF Tail(runnable) = <<>> THEN "sleep" ELSE "job"
  /\ UNCHANGED <<run_vars, ex_vars, target_time, test_delay, now, jobs,
                 fired, lp_last, lp_exit>>

\* run_pending calls the next due job's run_scraper, in the loop's thread
StartRun ==
  /\ lp_pc = "job"
  /\ active' = active + 1
  /\ lp_pc' = "running"
  /\ UNCHANGED <<run_vars, ex_vars, target_time, test_delay, now, jobs,
                 runnable, fired, lp_last, lp_exit>>

\* How a run of run_scraper ends, lines 251-258: scrape_books returned
\* records, returned none, or raised and was caught.
RunOutcomes == {"data", "nodata", "raised"}

\* A run_scraper without the handler of line 257: the exception of
\* scrape_books reaches the handler of line 281 and the loop is left.
FinishRunUncaught ==
  /\ lp_pc = "running"
  /\ \E o \in RunOutcomes :
       /\ lp_last' = o
       /\ lp_pc' = IF o = "raised" THEN "exited"
                   ELSE IF Tail(runnable) = <<>> THEN "sleep" ELSE "job"
       /\ lp_exit' = IF o = "raised" THEN "run_failed" ELSE lp_exit
  /\ \E d \in 0..1 :
       /\ now + d <= Horizon
       /\ now' = now + d
       /\ jobs' = [jobs EXCEPT ![Head(runnable)] = NextAt(now', TimeOfDay(@))]
  /\ active' = active - 1
  /\ fired' = [fired EXCEPT ![Head(runnable)] = @ + 1]
  /\ runnable' = Tail(runnable)
  /\ UNCHANGED <<run_vars, ex_vars, target_time, test_delay>>

\* run_scraper returns after d ticks; the job is rescheduled for the next
\* occurrence of its time of day (that of its next_run so far) and
\* run_pending goes on with the next due job.
FinishRun ==
  /\ lp_pc = "running"
  /\ \E o \in RunOutcomes : lp_last' = o
  /\ \E d \in 0..1 :
       /\ now + d <= Horizon
       /\ now' = now + d
       /\ jobs' = [jobs EXCEPT ![Head(runnable)] = NextAt(now', TimeOfDay(@))]
  /\ active' = active - 1
  /\ fired' = [fired EXCEPT ![Head(runnable)] = @ + 1]
  /\ runnable' = Tail(runnable)
  /\ lp_pc' = IF Tail(runnable) = <<>> THEN "sleep" ELSE "job"
  /\ UNCHANGED <<run_vars, ex_vars, target_time, test_delay, lp_exit>>

\* line 278: time.sleep(60)
Sleep ==
  /\ lp_pc = "sleep"
  /\ now < Horizon
  /\ now' = now + 1
  /\ lp_pc' = "pending"
  /\ UNCHANGED <<run_vars, ex_vars, target_time, test_delay, jobs, runnable,
                 active, fired, lp_last, lp_exit>>

\* lines 279-280: KeyboardInterrupt, wherever the loop is; it is no
\* Exception, so a run in progress is unwound through run_scraper.
Interrupt ==
  /\ lp_pc \in {"pending", "job", "running", "sleep"}
  /\ lp_exit' = "interrupt"
  /\ active' = 0
  /\ lp_pc' = "exited"
  /\ UNCHANGED <<run_vars, ex_vars, target_time, test_delay, now, jobs,
                 runnable, fired, lp_last>>

\* lines 281-282: an Exception raised in the loop outside the try of
\* run_scraper, such as an OSError of the print of line 250.
LoopFault ==
  /\ lp_pc = "running"
  /\ lp_exit' = "fault"
  /\ active' = 0
  /\ lp_pc' = "exited"
  /\ UNCHANGED <<run_vars, ex_vars, target_time, test_delay, now, jobs,
                 runnable, fired, lp_last>>

LoopNext ==
  \/ RegisterJobs \/ RunPending \/ StartRun \/ FinishRun \/ Sleep
  \/ Interrupt \/ LoopFault

SpecLoop == LoopInit /\ [][LoopNext]_vars

(***************************************************************************)
(* Properties.                                                             *)
(***************************************************************************)
Success(i) == tasks[i].result.kind = "return" /\ Truthy(tasks[i].result.value)

Count(seq, x) == Cardinality({i \in DOMAIN seq : seq[i] = x})

\* The for loop of line 195 has been left.
DispatchEnded == executor # "none" /\ pc \notin {"submit", "collect"}

C2_UrlIsRequested ==
  (ex_pc = "done" /\ ex_outcome = "ok") =>
    /\ ex_ret.kind = "return"
    /\ Truthy(ex_ret.value)
    /\ "url" \in Keys(ex_ret.value)
    /\ Get(ex_ret.value, "url") = PyStr(ex_url)

\* C3: when the fetch inside get_book_data fails (transport error, timeout
\* or non-success status) the call returns exactly {} and does not raise.
C3_FailedFetchEmpty ==
  (ex_pc = "done" /\ ex_outcome \in RequestFailures) =>
    ex_ret = Return(EmptyDict)

\* A call whose request got a non-success status for a page with content.
C3_Witness ==
  /\ ex_pc = "done"
  /\ ex_outcome = "http_error"
  /\ ex_doc.h1 # None
  /\ ex_doc.table # None

\* C4: when max_pages is set to an integer, no catalogue page numbered
\* greater than max_pages is fetched.
C4_CapRespected ==
  max_pages # None =>
    \A i \in DOMAIN fetch_log : fetch_log[i].page <= max_pages.int

\* C5: when the reachability check fails, no catalogue page is fetched, no
\* task is submitted, persistence is not invoked and the run returns an
\* empty collection.
C5_RootFailFast ==
  root_check \in RequestFailures =>
    /\ fetch_log = <<>>
    /\ tasks = <<>> /\ executor = "none"
    /\ save_calls = 0 /\ artifact = [state |-> "old"]
    /\ pc = "returned"
    /\ ret = Return(<<>>)

C5_Witness ==
  /\ root_check = "connection"
  /\ is_save
  /\ caller = "direct"
  /\ pc = "returned"

\* The addresses the walk takes from the logged pages.
RECURSIVE LogUrls(_)
LogUrls(log) ==
  IF log = <<>> THEN <<>>
  ELSE LET r == Resolve(CATALOGUE_URL_TEMPLATE(Head(log).page), Head(log).links)
       IN (IF r.kind = "return" THEN r.value ELSE <<>>) \o LogUrls(Tail(log))

\* Every URL has been submitted.
AllSubmitted ==
  \/ pc \in {"collect", "join", "close", "summary", "return"}
  \/ pc = "returned" /\ all_book_urls # <<>>

\* C6: when the walk ends at page p on a non-success status, a transport
\* failure or timeout, or an empty page, the URLs of pages 1..p-1 are all
\* retained, and they are what the dispatch submits.
C6_WalkKeepsUrls ==
  walk_end \in {"unavailable", "exception", "empty"} =>
    LET kept == LogUrls(SubSeq(fetch_log, 1, Len(fetch_log) - 1))
    IN /\ all_book_urls = kept
       /\ (kept # <<>> /\ pc = "returned") => tasks # <<>>
       /\ AllSubmitted => [i \in DOMAIN tasks |-> tasks[i].url] = kept

\* Page 2 could not be loaded; the two URLs of page 1 were submitted.
C6_Witness ==
  /\ walk_end = "exception"
  /\ Len(fetch_log) = 2
  /\ Len(tasks) = 2
  /\ pc = "collect"

\* C7: catalogue pages are fetched in increasing order from 1, none
\* skipped or repeated, and page p+1 only after page p was fetched with
\* status 200 and had at least one book link.
C7_PagesInOrder ==
  \A i \in DOMAIN fetch_log :
    /\ fetch_log[i].page = i
    /\ i < Len(fetch_log) =>
         fetch_log[i].outcome = "ok" /\ Len(fetch_log[i].links) >= 1

C7_Witness ==
  /\ Len(fetch_log) = 2
  /\ fetch_log[2].page = 2
  /\ fetch_log[2].outcome = "ok"
  /\ Len(fetch_log[2].links) >= 1

\* C8: the phases of a run do not overlap.  No task exists before the
\* walk has ended, and save_books_data is called only when every URL was
\* submitted, every task has completed and been collected and the pool is
\* shut down.
C8_PhasesSequential ==
  /\ tasks # <<>> => walk_end # "running" /\ pc \notin {"check", "walk"}
  /\ save_calls > 0 =>
       /\ Len(tasks) = Len(all_book_urls)
       /\ \A i \in DOMAIN tasks : tasks[i].st = "collected"
       /\ executor = "shutdown"

C8_Witness ==
  /\ save_calls = 1
  /\ Len(tasks) = 2
  /\ Len(fetch_log) = 2

\* C9: when an extraction task raises, the dispatcher counts one failure
\* for it and goes on: no exception leaves the dispatch, every collected
\* task that raised is one of the failures counted, and at the end of the
\* dispatch every other task has been collected too.
C9_FaultAbsorbed ==
  (\E i \in DOMAIN tasks : tasks[i].result.kind = "raise") =>
    /\ pc # "raised" /\ ret.kind # "raise"
    /\ failed_count >=
         Cardinality({i \in Collected : tasks[i].result.kind = "raise"})
    /\ DispatchEnded =>
         /\ Collected = DOMAIN tasks
         /\ \A i \in DOMAIN tasks :
              Success(i) => Count(parsed_books, tasks[i].result.value) >= 1

\* The first task raised, the second was collected after it with a record.
C9_Witness ==
  /\ pc = "returned"
  /\ Len(tasks) = 2
  /\ tasks[1].result.kind = "raise"
  /\ failed_count = 1
  /\ parsed_books = <<tasks[2].result.value>>

\* C10 as stated: no exception propagates out of scrape_books.
C10_NothingLeavesScrapeBooks == ret.kind # "raise"

\* C10, amended: request failures of the reachability check and of the
\* walk, exceptions of extraction tasks and OSErrors of persistence are
\* absorbed in scrape_books; an exception leaves scrape_books only from the
\* handling of a catalogue page's links, and run_scraper absorbs it.
C10_AbsorbedByRunScraper ==
  /\ rs_ret # "raised"
  /\ rs_ret = "returned" => pc \in {"returned", "raised"}
  /\ ret.kind = "raise" =>
       /\ walk_end = "fault"
       /\ root_check = "ok"
       /\ tasks = <<>> /\ save_calls = 0
  /\ pc = "raised" => ret.kind = "raise"
  /\ (root_check \in RequestFailures
        \/ walk_end \in {"unavailable", "exception", "empty"}
        \/ tasks # <<>> \/ save_calls > 0) => pc # "raised"

\* run_scraper returned after scrape_books raised.
C10_Witness ==
  /\ caller = "run_scraper"
  /\ rs_ret = "returned"
  /\ ret.kind = "raise"

\* The boolean a caller would be handed.
PyBool(b) == [bool |-> b]

\* C11 as stated: save_books_data hands its caller a success/failure value:
\* the failure value after an OSError, the success value otherwise.
C11_ReportsOutcome ==
  save_calls > 0 => save_ret = Return(PyBool(save_outcome = "written"))

\* C11, amended: save_books_data never raises on an OSError, and it returns
\* None whether the file was written or not; scrape_books goes on to its
\* return.
C11_NeverRaisesReturnsNone ==
  save_calls > 0 =>
    /\ save_outcome \in {"written", "oserror"}
    /\ save_ret = Return(None)
    /\ pc \in {"return", "returned"}
    /\ ret.kind # "raise"

\* The write failed after open() had truncated the file; the run returned.
C11_Witness ==
  /\ save_outcome = "oserror"
  /\ artifact = [state |-> "truncated"]
  /\ pc = "returned"

\* C12: what scrape_books returns after a dispatch is the accumulator the
\* dispatch built, one record for each successful task, whether nothing
\* was saved, the file was written or the write failed.
C12_ReturnsAccumulator ==
  (pc = "returned" /\ executor # "none") =>
    /\ ret = Return(parsed_books)
    /\ Len(parsed_books) = Cardinality({i \in DOMAIN tasks : Success(i)})
    /\ \A i \in DOMAIN tasks :
         Success(i) =>
           Count(parsed_books, tasks[i].result.value) =
             Cardinality({j \in DOMAIN tasks :
                            tasks[j].result = tasks[i].result})

\* The write failed and both records were returned.
C12_Witness ==
  /\ pc = "returned"
  /\ save_outcome = "oserror"
  /\ Len(ret.value) = 2

\* C13: runs never overlap in main_loop.  At most one run_scraper is in
\* progress, and while one is the loop is inside that call: it neither
\* checks triggers nor starts the next due job, even with two jobs due at
\* the same check.
C13_NoOverlap ==
  /\ active <= 1
  /\ active = 1 <=> lp_pc = "running"

\* Both jobs were due at one check; the first is running, the second waits.
C13_Witness ==
  /\ lp_pc = "running"
  /\ Len(runnable) = 2
  /\ active = 1

\* C14: the loop is left only on an interrupt or on an exception raised in
\* the loop itself; after a run that failed (scrape_books raised, or
\* returned no data) the loop goes on.
C14_ExitOnlyOnInterruptOrFault ==
  /\ lp_pc = "exited" <=> lp_exit # "none"
  /\ lp_exit \in {"none", "interrupt", "fault"}

\* After a run in which scrape_books raised, the loop slept and is at its
\* next check.
C14_Witness ==
  /\ lp_last = "raised"
  /\ lp_pc = "pending"
  /\ fired["target"] + fired["test"] >= 1
  /\ lp_exit = "none"

\* C15: the test trigger causes exactly one run and never fires a second
\* time, while the target_time trigger fires once per day.
C15_TestFiresOnce ==
  /\ fired["test"] <= 1
  /\ fired["target"] <= (now \div DayTicks) + 1

\* C16: the dispatcher submits one task for each entry of the URL list, in
\* order, and never retries: a task's get_book_data is started at most
\* once, and a task that was collected, failed or not, is never queued
\* again.
C16_OneTaskPerUrlNoRetry ==
  /\ Len(tasks) <= Len(all_book_urls)
  /\ \A i \in DOMAIN tasks :
       /\ tasks[i].url = all_book_urls[i]
       /\ tasks[i].attempts = IF tasks[i].st = "queued" THEN 0 ELSE 1
  /\ DispatchEnded => Len(tasks) = Len(all_book_urls)
  /\ failed_count <= Len(tasks)

\* The list names one address twice: two tasks, both failed, each started
\* once.
C16_Witness ==
  /\ pc = "returned"
  /\ Len(tasks) = 2
  /\ tasks[1].url = tasks[2].url
  /\ failed_count = 2
  /\ \A i \in DOMAIN tasks : tasks[i].attempts = 1

\* The rating the claim names for a star-rating element: the value of
\* its second class tag in the vocabulary, 0 without an element, a second
\* tag or a known tag.
ClaimedRating(star) ==
  IF star = None THEN 0
  ELSE IF Len(star.classes) < 2 THEN 0
  ELSE CASE star.classes[2] = "One" -> 1
         [] star.classes[2] = "Two" -> 2
         [] star.classes[2] = "Three" -> 3
         [] star.classes[2] = "Four" -> 4
         [] star.classes[2] = "Five" -> 5
         [] OTHER -> 0

\* C17: for every detail page the rating of the returned record is an
\* integer in 0..5, the one the star-rating element's second class names.
C17_RatingFromClass ==
  (ex_pc = "done" /\ ex_outcome = "ok") =>
    /\ "rating" \in Keys(ex_ret.value)
    /\ Get(ex_ret.value, "rating") \in {PyInt(n) : n \in 0..5}
    /\ Get(ex_ret.value, "rating") = PyInt(ClaimedRating(ex_doc.star))

\* The anchors of the logged pages that carry an href: the detail links.
RECURSIVE HrefCount(_)
HrefCount(log) ==
  IF log = <<>> THEN 0
  ELSE Cardinality({j \in DOMAIN Head(log).links : Head(log).links[j] # None})
         + HrefCount(Tail(log))

\* The record of a successful extraction of the page at url.
RecordAt(url) == get_book_data(url, "ok", DetailPage(url)).value

C19_SessionOutlivesWorkers ==
  session = "closed" =>
    /\ Queued = {} /\ Running = {}
    /\ executor \in {"none", "shutdown"}
    /\ pc \in {"summary", "return", "returned", "raised"}

\* An exception on the coordinator left a finished future uncollected; its
\* worker was joined before the session was closed.
C19_Witness ==
  /\ pc = "raised"
  /\ session = "closed"
  /\ ret = Raise("KeyboardInterrupt")
  /\ Len(tasks) = 2
  /\ tasks[2].st = "finished"
  /\ tasks[2].attempts = 1

\* C20: scrape_books calls save_books_data at most once in a run, and only
\* when is_save is true and at least one record was extracted; in every
\* other run (root check failed, no URL found, every extraction failed,
\* is_save false) the artifact file is the one that was there before.
C20_SaveOnceWhenWanted ==
  /\ save_calls <= 1
  /\ save_calls = 1 => (is_save /\ parsed_books # <<>>)
  /\ save_calls = 0 => artifact = [state |-> "old"]
  /\ (pc = "returned" /\ (~is_save \/ parsed_books = <<>>)) =>
       (save_calls = 0 /\ artifact = [state |-> "old"])

\* A run asked to save in which every extraction failed.
C20_Witness ==
  /\ pc = "returned"
  /\ is_save
  /\ Len(tasks) = 2
  /\ failed_count = 2
  /\ parsed_books = <<>>
  /\ save_calls = 0
  /\ artifact = [state |-> "old"]

====
